---------------------------- MODULE Spec2Model ----------------------------
(***************************************************************************)
(* A model of GEL's HMesh/smooth.cpp: the static batch scheduler           *)
(* (batch_vertices, for_each_vertex_parallel), laplacian_smooth,           *)
(* taubin_smooth, face_neighbourhood, the relaxation loop of               *)
(* anisotropic_smooth and TAL_smoothing.                                   *)
(*                                                                         *)
(* Numbers.  Vec3d/double values are modelled by exact rationals <<n, d>>  *)
(* in lowest terms with d > 0; d = 0 encodes the non-finite IEEE values    *)
(* (<<0,0>> is NaN, <<1,0>> is +inf, <<-1,0>> is -inf) so that a division  *)
(* by a zero denominator is visible in the result.                         *)
(*                                                                         *)
(* Meshes.  Manifold and Walker are not part of smooth.cpp; they are       *)
(* modelled from their traversal contract: a mesh is a vertex count and a  *)
(* sequence of faces (each a counter-clockwise sequence of vertex ids), a  *)
(* half-edge is the pair <<tail, head>>, and a half-edge that lies in no   *)
(* face is a boundary half-edge whose face is InvalidFaceID.               *)
(***************************************************************************)
EXTENDS Integers, Sequences, FiniteSets, TLC

VARIABLES
    mesh,             \* the Manifold m (topology)
    pos,              \* m.positions_attribute_vector(), the live buffer
    pos0,             \* the positions at the start of the call
    CORES,            \* the global int CORES
    pc,               \* position of the calling thread
    bnd,              \* boundary(m, v) for the vertices in mesh order
    batch_size,       \* batch_vertices: batch_size
    cnt,              \* batch_vertices: cnt
    vi,               \* index of the next element of a sequential loop
    vertex_ids,       \* the VertexIDBatches
    new_pos,          \* the scratch buffer new_pos
    weight,           \* the step size (weight, or w of TAL_smoothing)
    max_iter,         \* max_iter
    iter,             \* the iteration counter
    t,                \* for_each_vertex_parallel: the loop index t
    wpc,              \* state of each thread of t_vec
    widx,             \* each worker's position in its batch
    f0,               \* face_neighbourhood: the face f
    nbrs,             \* face_neighbourhood: nbrs
    touched,          \* face_neighbourhood: touched
    wf,               \* face_neighbourhood: walker wf
    wv,               \* face_neighbourhood: walker wv
    filtered_norms,   \* anisotropic_smooth: filtered_norms
    vertex_positions, \* anisotropic_smooth: vertex_positions
    count,            \* anisotropic_smooth: count
    sub_iter,         \* anisotropic_smooth: sub_iter
    avg_len,          \* anisotropic_smooth: avg_len
    max_move,         \* anisotropic_smooth: max_move
    vertex_areas,     \* TAL_smoothing: vertex_areas
    laplacians,       \* TAL_smoothing: laplacians
    op,               \* the function that was called
    divz,             \* what this build does on an integer division by zero
    ub                \* an operation with undefined behaviour has been executed

meshVars  == <<mesh, pos, pos0>>
batchVars == <<CORES, bnd, batch_size, cnt, vertex_ids>>
lapVars   == <<new_pos, weight, max_iter, iter, t, wpc, widx>>
nbVars    == <<f0, nbrs, touched, wf, wv>>
aniVars   == <<filtered_norms, vertex_positions, count, sub_iter, avg_len, max_move>>
talVars   == <<vertex_areas, laplacians>>
vars == <<meshVars, batchVars, lapVars, nbVars, aniVars, talVars, pc, vi, op, divz, ub>>

-----------------------------------------------------------------------------
(* Bounds of the model *)

MaxCores == 3
MaxVertices == 9
MaxIter == 2
MaxTaubinIter == 1
MaxAniIter == 2
MaxTalIter == 1

(* int CORES = 8 *)
DefaultCores == 8

-----------------------------------------------------------------------------
(* Rational arithmetic standing for double *)

Abs(x) == IF x < 0 THEN -x ELSE x

Sign(x) == IF x < 0 THEN -1 ELSE IF x > 0 THEN 1 ELSE 0

RECURSIVE GCD(_, _)
GCD(a, b) == IF b = 0 THEN a ELSE GCD(b, a % b)

Norm(n, d) ==
    IF d = 0 THEN <<Sign(n), 0>>
    ELSE LET g == GCD(Abs(n), Abs(d))
             s == IF d < 0 THEN -1 ELSE 1
         IN  <<(s * n) \div g, (s * d) \div g>>

R(n) == <<n, 1>>
NaN == <<0, 0>>
IsFinite(a) == a[2] # 0
IsNaN(a) == a = NaN

RAdd(a, b) ==
    IF IsNaN(a) \/ IsNaN(b) THEN NaN
    ELSE IF ~IsFinite(a) /\ ~IsFinite(b) THEN (IF a = b THEN a ELSE NaN)
    ELSE IF ~IsFinite(a) THEN a
    ELSE IF ~IsFinite(b) THEN b
    ELSE LET g == GCD(a[2], b[2])
         IN  Norm(a[1] * (b[2] \div g) + b[1] * (a[2] \div g), (a[2] \div g) * b[2])

RNeg(a) == <<-a[1], a[2]>>

RSub(a, b) == RAdd(a, RNeg(b))

RMul(a, b) ==
    IF IsNaN(a) \/ IsNaN(b) THEN NaN
    ELSE IF ~IsFinite(a) \/ ~IsFinite(b) THEN <<Sign(a[1]) * Sign(b[1]), 0>>
    ELSE LET g1 == GCD(Abs(a[1]), b[2])
             g2 == GCD(Abs(b[1]), a[2])
         IN  Norm((a[1] \div g1) * (b[1] \div g2), (a[2] \div g2) * (b[2] \div g1))

RDiv(a, b) ==
    IF IsNaN(a) \/ IsNaN(b) THEN NaN
    ELSE IF ~IsFinite(b) THEN (IF IsFinite(a) THEN R(0) ELSE NaN)
    ELSE IF ~IsFinite(a) THEN <<a[1] * (IF b[1] < 0 THEN -1 ELSE 1), 0>>
    ELSE Norm(a[1] * b[2], a[2] * b[1])

\* a < b on doubles: false whenever an operand is NaN
RLess(a, b) ==
    IF IsNaN(a) \/ IsNaN(b) THEN FALSE
    ELSE IF ~IsFinite(a) THEN a[1] < 0 /\ a # b
    ELSE IF ~IsFinite(b) THEN b[1] > 0
    ELSE a[1] * b[2] < b[1] * a[2]

RAbs(a) == <<Abs(a[1]), a[2]>>

-----------------------------------------------------------------------------
(* CGLA::Vec3d *)

Vec(x, y, z) == <<R(x), R(y), R(z)>>
Zero3 == Vec(0, 0, 0)
VAdd(a, b) == [i \in 1..3 |-> RAdd(a[i], b[i])]
VSub(a, b) == [i \in 1..3 |-> RSub(a[i], b[i])]
VScale(s, a) == [i \in 1..3 |-> RMul(s, a[i])]
VDiv(a, s) == [i \in 1..3 |-> RDiv(a[i], s)]
Dot(a, b) == RAdd(RAdd(RMul(a[1], b[1]), RMul(a[2], b[2])), RMul(a[3], b[3]))
SqrLength(a) == Dot(a, a)
VFinite(a) == \A i \in 1..3 : IsFinite(a[i])
Cross(a, b) ==
    << RSub(RMul(a[2], b[3]), RMul(a[3], b[2])),
       RSub(RMul(a[3], b[1]), RMul(a[1], b[3])),
       RSub(RMul(a[1], b[2]), RMul(a[2], b[1])) >>

-----------------------------------------------------------------------------
(* The mesh collaborator: Manifold (connectivity kernel) and Walker *)

InvalidFaceID == 0

Vertices(m) == 1..m.nv
Faces(m) == 1..Len(m.faces)

FaceEdges(fc) == { <<fc[i], fc[(i % Len(fc)) + 1]>> : i \in 1..Len(fc) }

k_opp(h) == <<h[2], h[1]>>

k_vert(h) == h[2]

k_face(m, h) ==
    IF \E f \in Faces(m) : h \in FaceEdges(m.faces[f])
    THEN CHOOSE f \in Faces(m) : h \in FaceEdges(m.faces[f])
    ELSE InvalidFaceID

HalfEdges(m) ==
    LET inner == UNION { FaceEdges(m.faces[f]) : f \in Faces(m) }
    IN  inner \cup { k_opp(h) : h \in inner }

k_next(m, h) ==
    IF k_face(m, h) # InvalidFaceID
    THEN LET fc == m.faces[k_face(m, h)]
             i  == CHOOSE j \in 1..Len(fc) : fc[j] = h[2]
         IN  <<h[2], fc[(i % Len(fc)) + 1]>>
    ELSE CHOOSE g \in HalfEdges(m) : g[1] = h[2] /\ k_face(m, g) = InvalidFaceID

k_prev(m, h) ==
    IF k_face(m, h) # InvalidFaceID
    THEN LET fc == m.faces[k_face(m, h)]
             i  == CHOOSE j \in 1..Len(fc) : fc[j] = h[1]
         IN  <<fc[((i + Len(fc) - 2) % Len(fc)) + 1], h[1]>>
    ELSE CHOOSE g \in HalfEdges(m) : g[2] = h[1] /\ k_face(m, g) = InvalidFaceID

\* the outgoing half-edge stored for v: the boundary one when v is on the boundary
k_out(m, v) ==
    LET outs == { h \in HalfEdges(m) : h[1] = v }
        bd   == { h \in outs : k_face(m, h) = InvalidFaceID }
        pick(S) == CHOOSE h \in S : \A g \in S : h[2] <= g[2]
    IN  IF bd # {} THEN pick(bd) ELSE pick(outs)

\* the half-edge stored for f
k_last(m, f) == <<m.faces[f][Len(m.faces[f])], m.faces[f][1]>>

Walker(h) == [h |-> h, last |-> h, counter |-> 0]
walker_v(m, v) == Walker(k_out(m, v))
walker_f(m, f) == Walker(k_last(m, f))
full_circle(w) == w.counter > 0 /\ w.h = w.last
circulate_vertex_cw(m, w) ==
    [w EXCEPT !.h = k_next(m, k_opp(w.h)), !.counter = w.counter + 1]
circulate_vertex_ccw(m, w) ==
    [w EXCEPT !.h = k_opp(k_prev(m, w.h)), !.counter = w.counter + 1]
circulate_face_cw(m, w) ==
    [w EXCEPT !.h = k_prev(m, w.h), !.counter = w.counter + 1]

boundary(m, v) ==
    LET h == k_out(m, v)
    IN  k_face(m, h) = InvalidFaceID \/ k_face(m, k_opp(h)) = InvalidFaceID

\* the walkers visited by circulating counter-clockwise around a vertex
RECURSIVE RingFrom(_, _)
RingFrom(m, w) ==
    IF full_circle(w) THEN <<>>
    ELSE <<w>> \o RingFrom(m, circulate_vertex_ccw(m, w))

Ring(m, v) == RingFrom(m, walker_v(m, v))

RECURSIVE VSum(_, _)
VSum(p, vs) ==
    IF vs = <<>> THEN Zero3 ELSE VAdd(p[Head(vs)], VSum(p, Tail(vs)))

\* laplacian(m, v) on the position buffer p: mean of the one-ring minus p[v]
laplacian(p, m, v) ==
    LET ring == Ring(m, v)
        ns   == [i \in 1..Len(ring) |-> k_vert(ring[i].h)]
    IN  VSub(VDiv(VSum(p, ns), R(Len(ring))), p[v])

-----------------------------------------------------------------------------
(* The meshes the model runs on *)

Triangle == [nv |-> 3, faces |-> << <<1, 2, 3>> >>]

Strip == [nv |-> 4, faces |-> << <<1, 2, 3>>, <<1, 3, 4>> >>]

Tetra == [nv |-> 4,
          faces |-> << <<1, 2, 3>>, <<1, 4, 2>>, <<2, 4, 3>>, <<3, 4, 1>> >>]

Fan == [nv |-> 5,
        faces |-> << <<1, 2, 5>>, <<2, 3, 5>>, <<3, 4, 5>>, <<4, 1, 5>> >>]

\* a triangle with two inner vertices 4 and 5
Disk2 == [nv |-> 5,
          faces |-> << <<1, 2, 4>>, <<2, 5, 4>>, <<2, 3, 5>>, <<3, 4, 5>>,
                       <<3, 1, 4>> >>]

Octa == [nv |-> 6,
         faces |-> << <<1, 2, 3>>, <<1, 3, 4>>, <<1, 4, 5>>, <<1, 5, 2>>,
                      <<6, 3, 2>>, <<6, 4, 3>>, <<6, 5, 4>>, <<6, 2, 5>> >>]

\* two quads in the plane z = 0 and a third standing on an edge of the first
LQuads == [nv |-> 8,
           faces |-> << <<1, 2, 3, 4>>, <<4, 3, 5, 6>>, <<2, 7, 8, 3>> >>]

\* a strip of four triangles
Band == [nv |-> 6,
         faces |-> << <<1, 2, 3>>, <<2, 4, 3>>, <<3, 4, 5>>, <<4, 6, 5>> >>]

\* a box without its top: the bottom 1..4, the rim 5..8
Box == [nv |-> 8,
        faces |-> << <<1, 4, 3, 2>>, <<1, 2, 6, 5>>, <<2, 3, 7, 6>>,
                     <<3, 4, 8, 7>>, <<4, 1, 5, 8>> >>]

EmptyMesh == [nv |-> 0, faces |-> <<>>]


-----------------------------------------------------------------------------
(* Embeddings: a base embedding per mesh and its single-vertex displacements *)

BasePos(m) ==
    CASE m = Triangle -> << Vec(0, 0, 0), Vec(4, 0, 0), Vec(0, 4, 0) >>
      [] m = Strip    -> << Vec(0, 0, 0), Vec(4, 0, 0), Vec(4, 4, 0), Vec(0, 4, 0) >>
      [] m = Tetra    -> << Vec(0, 0, 0), Vec(4, 0, 0), Vec(0, 4, 0), Vec(0, 0, 4) >>
      [] m = Fan      -> << Vec(0, 0, 0), Vec(4, 0, 0), Vec(4, 4, 4), Vec(0, 4, 0),
                            Vec(2, 2, 1) >>
      [] m = Disk2    -> << Vec(0, 0, 0), Vec(11, 0, 0), Vec(0, 11, 11), Vec(4, 4, 4),
                            Vec(5, 5, 5) >>
      [] m = Band     -> << Vec(0, 0, 0), Vec(4, 0, 0), Vec(0, 4, 0), Vec(4, 4, 0),
                            Vec(0, 8, 0), Vec(4, 8, 0) >>
      [] m = Octa     -> << Vec(0, 0, 4), Vec(4, 0, 0), Vec(0, 4, 0), Vec(-4, 0, 0),
                            Vec(0, -4, 0), Vec(0, 0, -4) >>
      [] m = LQuads   -> << Vec(0, 0, 0), Vec(1, 0, 0), Vec(1, 1, 0), Vec(0, 1, 0),
                            Vec(1, 2, 0), Vec(0, 2, 0), Vec(1, 0, 1), Vec(1, 1, 1) >>

Displacement == Vec(0, 4, 8)

Embeddings(m) ==
    {BasePos(m)} \cup
    { [BasePos(m) EXCEPT ![v] = VAdd(BasePos(m)[v], Displacement)] : v \in Vertices(m) }

-----------------------------------------------------------------------------
(* batch_vertices *)

DivZeroOutcomes == {"trap", "zero", "ones"}

\* (2^64 - 1) % c, the all-ones quotient reduced modulo the worker count
UMaxMod(c) ==
    LET p16 == 65536 % c
        p32 == (p16 * p16) % c
        p64 == (p32 * p32) % c
    IN  (p64 + c - 1) % c

\* if (!boundary(m, v))
AcceptsAll(isBoundary) == TRUE

Accepts(isBoundary) == ~isBoundary

\* the index (cnt++/batch_size)%CORES for a non-zero batch_size
BatchIndexPreIncrement(c, bs, cores) == ((c + 1) \div bs) % cores

BatchIndex(c, bs, cores) == (c \div bs) % cores

\* the same index when batch_size is zero and the division does not trap
DivZeroIndex(outcome, cores) ==
    IF outcome = "zero" THEN 0 ELSE UMaxMod(cores)

NoBatches(cores) == [b \in 0..(cores - 1) |-> <<>>]

BatchSkip ==
    /\ pc = "batch" /\ vi <= Len(bnd) /\ ~Accepts(bnd[vi])
    /\ vi' = vi + 1
    /\ UNCHANGED <<meshVars, batchVars, lapVars, nbVars, aniVars, talVars,
                   pc, op, divz, ub>>

BatchPush ==
    /\ pc = "batch" /\ vi <= Len(bnd) /\ Accepts(bnd[vi]) /\ batch_size # 0
    /\ LET b == BatchIndex(cnt, batch_size, CORES)
       IN  vertex_ids' = [vertex_ids EXCEPT ![b] = Append(@, vi)]
    /\ cnt' = cnt + 1
    /\ vi' = vi + 1
    /\ UNCHANGED <<meshVars, CORES, bnd, batch_size, lapVars, nbVars, aniVars,
                   talVars, pc, op, divz, ub>>

BatchDivZero ==
    /\ pc = "batch" /\ vi <= Len(bnd) /\ Accepts(bnd[vi]) /\ batch_size = 0
    /\ \/ /\ divz = "trap"
          /\ pc' = "trap"
          /\ UNCHANGED <<vertex_ids, cnt, vi>>
       \/ /\ divz # "trap"
          /\ LET b == DivZeroIndex(divz, CORES)
             IN  vertex_ids' = [vertex_ids EXCEPT ![b] = Append(@, vi)]
          /\ cnt' = cnt + 1
          /\ vi' = vi + 1
          /\ pc' = pc
    /\ ub' = TRUE
    /\ UNCHANGED <<meshVars, CORES, bnd, batch_size, lapVars, nbVars, aniVars,
                   talVars, op, divz>>

\* the copy made by "auto new_pos = m.positions_attribute_vector()"
ScratchZero(p) == [v \in DOMAIN p |-> Zero3]

ScratchCopy(p) == p

BatchReturn ==
    /\ pc = "batch" /\ vi > Len(bnd)
    /\ pc' = IF op = "laplacian_smooth" THEN "copy" ELSE "returned"
    /\ UNCHANGED <<meshVars, batchVars, lapVars, nbVars, aniVars, talVars,
                   vi, op, divz, ub>>

CopyScratch ==
    /\ pc = "copy"
    /\ new_pos' = ScratchCopy(pos)
    /\ pc' = IF op = "laplacian_smooth" THEN "loop" ELSE "t_loop"
    /\ UNCHANGED <<meshVars, batchVars, weight, max_iter, iter, t, wpc, widx,
                   nbVars, aniVars, talVars, vi, op, divz, ub>>

-----------------------------------------------------------------------------
(* laplacian_smooth and for_each_vertex_parallel *)

Workers == 0..(CORES - 1)

\* new_pos[v] = m.pos(v)+weight*laplacian(m, v)
LaplacianUpdateNoCentre(p, w, m, v) == VScale(w, laplacian(p, m, v))

LaplacianUpdate(p, w, m, v) == VAdd(p[v], VScale(w, laplacian(p, m, v)))

\* t_vec[t].join() returns once thread t has returned
JoinNoWait(st) == st \in {"running", "finished"}

Joinable(st) == st = "finished"

LoopEnter ==
    /\ pc = "loop" /\ iter < max_iter
    /\ pc' = "launch"
    /\ t' = 0
    /\ wpc' = [w \in Workers |-> "idle"]
    /\ UNCHANGED <<meshVars, batchVars, new_pos, weight, max_iter, iter, widx,
                   nbVars, aniVars, talVars, vi, op, divz, ub>>

LoopExit ==
    /\ pc = "loop" /\ iter >= max_iter
    /\ pc' = "done"
    /\ UNCHANGED <<meshVars, batchVars, lapVars, nbVars, aniVars, talVars,
                   vi, op, divz, ub>>

Launch ==
    /\ pc = "launch" /\ t < CORES
    /\ wpc' = [wpc EXCEPT ![t] = "running"]
    /\ widx' = [widx EXCEPT ![t] = 1]
    /\ t' = t + 1
    /\ UNCHANGED <<meshVars, batchVars, new_pos, weight, max_iter, iter,
                   nbVars, aniVars, talVars, pc, vi, op, divz, ub>>

LaunchDone ==
    /\ pc = "launch" /\ t = CORES
    /\ pc' = "join"
    /\ t' = 0
    /\ UNCHANGED <<meshVars, batchVars, new_pos, weight, max_iter, iter, wpc, widx,
                   nbVars, aniVars, talVars, vi, op, divz, ub>>

WorkerStep(w) ==
    /\ wpc[w] = "running" /\ widx[w] <= Len(vertex_ids[w])
    /\ LET v == vertex_ids[w][widx[w]]
       IN  new_pos' = [new_pos EXCEPT ![v] = LaplacianUpdate(pos, weight, mesh, v)]
    /\ widx' = [widx EXCEPT ![w] = @ + 1]
    /\ UNCHANGED <<meshVars, batchVars, weight, max_iter, iter, t, wpc,
                   nbVars, aniVars, talVars, pc, vi, op, divz, ub>>

WorkerReturn(w) ==
    /\ wpc[w] = "running" /\ widx[w] > Len(vertex_ids[w])
    /\ wpc' = [wpc EXCEPT ![w] = "finished"]
    /\ UNCHANGED <<meshVars, batchVars, new_pos, weight, max_iter, iter, t, widx,
                   nbVars, aniVars, talVars, pc, vi, op, divz, ub>>

Join ==
    /\ pc = "join" /\ t < CORES /\ Joinable(wpc[t])
    /\ t' = t + 1
    /\ UNCHANGED <<meshVars, batchVars, new_pos, weight, max_iter, iter, wpc, widx,
                   nbVars, aniVars, talVars, pc, vi, op, divz, ub>>

JoinDone ==
    /\ pc = "join" /\ t = CORES
    /\ pc' = "swap"
    /\ UNCHANGED <<meshVars, batchVars, lapVars, nbVars, aniVars, talVars,
                   vi, op, divz, ub>>

\* swap(m.positions_attribute_vector(), new_pos)
Swap ==
    /\ pc = "swap"
    /\ pos' = new_pos
    /\ new_pos' = pos
    /\ iter' = iter + 1
    /\ pc' = "loop"
    /\ UNCHANGED <<mesh, pos0, batchVars, weight, max_iter, t, wpc, widx,
                   nbVars, aniVars, talVars, vi, op, divz, ub>>

-----------------------------------------------------------------------------
(* taubin_smooth *)

\* iter%2 == 0 ? +0.5 : -0.52
TaubinFactor(i) == IF i % 2 = 0 THEN <<1, 2>> ELSE <<-13, 25>>

\* new_pos[v] = factor * laplacian(m, v) + m.pos(v)
TaubinUpdate(p, i, m, v) == VAdd(VScale(TaubinFactor(i), laplacian(p, m, v)), p[v])

TaubinEnter ==
    /\ pc = "t_loop" /\ iter < 2 * max_iter
    /\ pc' = "t_sweep"
    /\ vi' = 1
    /\ UNCHANGED <<meshVars, batchVars, lapVars, nbVars, aniVars, talVars,
                   op, divz, ub>>

TaubinExit ==
    /\ pc = "t_loop" /\ iter >= 2 * max_iter
    /\ pc' = "done"
    /\ UNCHANGED <<meshVars, batchVars, lapVars, nbVars, aniVars, talVars,
                   vi, op, divz, ub>>

TaubinVertex ==
    /\ pc = "t_sweep" /\ vi <= mesh.nv
    /\ new_pos' = IF ~boundary(mesh, vi)
                  THEN [new_pos EXCEPT
                          ![vi] = TaubinUpdate(pos, iter, mesh, vi)]
                  ELSE new_pos
    /\ vi' = vi + 1
    /\ UNCHANGED <<meshVars, batchVars, weight, max_iter, iter, t, wpc, widx,
                   nbVars, aniVars, talVars, pc, op, divz, ub>>

TaubinSwap ==
    /\ pc = "t_sweep" /\ vi > mesh.nv
    /\ pos' = new_pos
    /\ new_pos' = pos
    /\ iter' = iter + 1
    /\ pc' = "t_loop"
    /\ UNCHANGED <<mesh, pos0, batchVars, weight, max_iter, t, wpc, widx,
                   nbVars, aniVars, talVars, vi, op, divz, ub>>


-----------------------------------------------------------------------------
(* The specification of the scheduler, laplacian_smooth and taubin_smooth *)

Weights == { <<1, 2>>, <<1, 1>> }

SmoothMeshes == {Triangle, Strip, Tetra, Fan, Disk2, Octa}

\* a boundary classification some manifold has: a closed mesh has no boundary
\* vertex and at least four vertices, a boundary loop has at least three
Realizable(bf) ==
    LET nb == Cardinality({ i \in DOMAIN bf : bf[i] })
    IN  \/ nb >= 3
        \/ nb = 0 /\ Len(bf) \notin {1, 2, 3}

IdleBatch ==
    /\ CORES = DefaultCores /\ bnd = <<>> /\ batch_size = 0 /\ cnt = 0
    /\ vertex_ids = <<>> /\ divz = "trap" /\ ub = FALSE
IdleLap ==
    /\ new_pos = <<>> /\ weight = R(0) /\ iter = 0 /\ t = 0
    /\ wpc = <<>> /\ widx = <<>>
IdleNb ==
    /\ f0 = 0 /\ nbrs = <<>> /\ touched = <<>> /\ wf = 0 /\ wv = 0
IdleAni ==
    /\ filtered_norms = <<>> /\ vertex_positions = <<>> /\ count = <<>>
    /\ sub_iter = 0 /\ avg_len = R(0) /\ max_move = R(0)
IdleTal ==
    /\ vertex_areas = <<>> /\ laplacians = <<>>

InitBatch ==
    /\ op = "batch_vertices"
    /\ mesh = EmptyMesh /\ pos = <<>> /\ pos0 = <<>>
    /\ CORES \in (1..MaxCores) \cup {DefaultCores}
    /\ \E n \in 0..MaxVertices : bnd \in [1..n -> BOOLEAN]
    /\ Realizable(bnd)
    /\ divz \in IF Len(bnd) \div CORES = 0 THEN DivZeroOutcomes ELSE {"trap"}
    /\ new_pos = <<>> /\ weight = R(0) /\ max_iter = 0

InitSmooth ==
    /\ op \in {"laplacian_smooth", "taubin_smooth"}
    /\ mesh \in SmoothMeshes
    /\ pos \in Embeddings(mesh) /\ pos0 = pos
    /\ bnd = [v \in Vertices(mesh) |-> boundary(mesh, v)]
    /\ new_pos = <<>>
    /\ IF op = "laplacian_smooth"
       THEN /\ CORES \in 1..MaxCores
            /\ weight \in Weights
            /\ max_iter \in 0..MaxIter
       ELSE /\ CORES = DefaultCores
            /\ weight = R(0)
            /\ max_iter \in 0..MaxTaubinIter
    /\ divz \in IF op = "laplacian_smooth" /\ mesh.nv \div CORES = 0
                THEN DivZeroOutcomes ELSE {"trap"}

Init ==
    /\ InitBatch \/ InitSmooth
    /\ pc = IF op = "taubin_smooth" THEN "copy" ELSE "batch"
    /\ batch_size = Len(bnd) \div CORES
    /\ cnt = 0
    /\ vi = 1
    /\ vertex_ids = NoBatches(CORES)
    /\ iter = 0 /\ t = 0
    /\ wpc = [w \in Workers |-> "idle"]
    /\ widx = [w \in Workers |-> 1]
    /\ ub = FALSE
    /\ IdleNb /\ IdleAni /\ IdleTal

Next ==
    \/ BatchSkip \/ BatchPush \/ BatchDivZero \/ BatchReturn \/ CopyScratch
    \/ LoopEnter \/ LoopExit \/ Launch \/ LaunchDone
    \/ \E w \in Workers : WorkerStep(w)
    \/ \E w \in Workers : WorkerReturn(w)
    \/ Join \/ JoinDone \/ Swap
    \/ TaubinEnter \/ TaubinExit \/ TaubinVertex \/ TaubinSwap

Spec == Init /\ [][Next]_vars


-----------------------------------------------------------------------------
(* Properties of the scheduler, laplacian_smooth and taubin_smooth *)

Batched == op \in {"batch_vertices", "laplacian_smooth"}

Returned == Batched /\ pc \notin {"batch", "trap"}

BatchSlots ==
    UNION { { <<b, i>> : i \in 1..Len(vertex_ids[b]) } : b \in DOMAIN vertex_ids }

Occurrences(v) ==
    Cardinality({ s \in BatchSlots : vertex_ids[s[1]][s[2]] = v })

\* the scratch entries worker w has written in the current sweep
Written(w) ==
    IF wpc[w] = "idle" THEN {}
    ELSE { vertex_ids[w][i] : i \in 1..(widx[w] - 1) }

Interior(m) == { v \in Vertices(m) : ~boundary(m, v) }

NonEmptyBatches == { b \in DOMAIN vertex_ids : vertex_ids[b] # <<>> }

(* C1: the batches partition the non-boundary vertices: every non-boundary
   vertex that batch_vertices has visited lies in exactly one batch, exactly
   once, no boundary vertex lies in any batch, and in a parallel sweep the
   sets of scratch entries written by two different workers are disjoint. *)
C1_BatchesPartition ==
    Batched =>
        /\ \A v \in DOMAIN bnd :
              Occurrences(v) = IF ~bnd[v] /\ v < vi THEN 1 ELSE 0
        /\ \A w1 \in Workers : \A w2 \in Workers :
              w1 # w2 => Written(w1) \cap Written(w2) = {}

C1_Witness ==
    /\ op = "laplacian_smooth"
    /\ \E v \in DOMAIN bnd : bnd[v]
    /\ \E w1 \in Workers : \E w2 \in Workers :
          w1 # w2 /\ Written(w1) # {} /\ Written(w2) # {}

(* C2: in laplacian_smooth a step taken while a worker is running leaves
   the live buffer unchanged, the swap is reached only when every launched
   worker has returned and been joined, and a worker starts only in the
   launch phase of an iteration, which follows the previous swap. *)
C2_SwapAfterJoin ==
    [][ op = "laplacian_smooth" =>
          /\ (\E w \in Workers : wpc[w] = "running") => pos' = pos /\ pc' # "swap"
          /\ pc' = "swap" => \A w \in Workers : wpc'[w] = "finished"
          /\ \A w \in Workers :
                wpc[w] # "running" /\ wpc'[w] = "running" => pc = "launch"
      ]_vars

C2_Witness ==
    /\ op = "laplacian_smooth" /\ pc = "swap" /\ iter >= 1
    /\ Cardinality(NonEmptyBatches) >= 2
    /\ new_pos # pos

(* C3: in laplacian_smooth and taubin_smooth the live position of every
   boundary vertex equals its position at the start of the call, in every
   state: during a sweep, after every swap and at return. *)
C3_BoundaryFixed ==
    op \in {"laplacian_smooth", "taubin_smooth"} =>
        \A v \in Vertices(mesh) : bnd[v] => pos[v] = pos0[v]

C3_Witness ==
    /\ op = "taubin_smooth" /\ pc = "done" /\ iter >= 2
    /\ \E v \in Vertices(mesh) : bnd[v]
    /\ \E v \in Vertices(mesh) : pos[v] # pos0[v]

(* C4: batch_vertices executes no fatal or undefined operation (no division
   by a zero batch_size) and, once it has returned, every non-boundary
   vertex lies in a batch with an index in 0..CORES-1. *)
C4_NoFatalOperation ==
    Batched =>
        /\ pc # "trap"
        /\ ~ub
        /\ Returned =>
              \A v \in DOMAIN bnd : ~bnd[v] =>
                  \E b \in 0..(CORES - 1) :
                      \E i \in 1..Len(vertex_ids[b]) : vertex_ids[b][i] = v

Harmonic(p, m) == \A v \in Interior(m) : laplacian(p, m, v) = Zero3

(* C6: if the uniform Laplacian is zero at every non-boundary vertex at the
   start of laplacian_smooth, the live buffer equals the initial positions in
   every state: during each sweep, after every swap and at return. *)
C6_FixedPoint ==
    op = "laplacian_smooth" => pos = pos0 \/ ~Harmonic(pos0, mesh)

C6_Witness ==
    /\ op = "laplacian_smooth" /\ pc = "done" /\ iter >= 2
    /\ Harmonic(pos0, mesh)
    /\ Interior(mesh) # {}
    /\ \E u \in Vertices(mesh) : \E v \in Vertices(mesh) : pos0[u] # pos0[v]

\* the sequential Jacobi reference: one sweep on a frozen buffer
JacobiSweep(p, w, m) ==
    [v \in Vertices(m) |->
        IF boundary(m, v) THEN p[v]
        ELSE VAdd(p[v], VScale(w, laplacian(p, m, v)))]

RECURSIVE Jacobi(_, _, _, _)
Jacobi(p, w, m, k) ==
    IF k = 0 THEN p ELSE JacobiSweep(Jacobi(p, w, m, k - 1), w, m)

(* C7: after the k-th swap of laplacian_smooth the live buffer equals k
   sweeps of the sequential Jacobi reference applied to the initial
   positions, whatever the interleaving of the workers, and the scratch
   buffer holds the live buffer of before that swap. *)
C7_JacobiReference ==
    op = "laplacian_smooth" /\ pc \in {"loop", "done"} =>
        /\ pos = Jacobi(pos0, weight, mesh, iter)
        /\ iter >= 1 => new_pos = Jacobi(pos0, weight, mesh, iter - 1)

C7_Witness ==
    /\ op = "laplacian_smooth" /\ pc = "done" /\ iter >= 2
    /\ Cardinality(NonEmptyBatches) >= 2
    /\ pos # pos0
    /\ pos # new_pos

BatchLen(b) == Len(vertex_ids[b])

(* C10 as stated: with at least CORES vertices the sizes of any two batches
   differ by at most one, the larger ones having the lower indices. *)
C10_DifferByOne ==
    Returned /\ Len(bnd) >= CORES =>
        \A b1 \in DOMAIN vertex_ids : \A b2 \in DOMAIN vertex_ids :
            b1 < b2 => BatchLen(b1) >= BatchLen(b2)
                        /\ BatchLen(b1) - BatchLen(b2) <= 1

(* C10 amended: with at least CORES vertices there are CORES batches, their
   sizes do not increase with the batch index, and the sizes of any two
   differ by at most batch_size = no_vertices / CORES. *)
C10_DifferByBatchSize ==
    Returned /\ Len(bnd) >= CORES =>
        /\ DOMAIN vertex_ids = 0..(CORES - 1)
        /\ \A b1 \in DOMAIN vertex_ids : \A b2 \in DOMAIN vertex_ids :
              b1 < b2 => BatchLen(b1) >= BatchLen(b2)
                          /\ BatchLen(b1) - BatchLen(b2) <= batch_size

C10_Witness ==
    /\ Returned /\ Len(bnd) >= CORES /\ CORES >= 2
    /\ \E v \in DOMAIN bnd : bnd[v]
    /\ \E b1 \in DOMAIN vertex_ids : \E b2 \in DOMAIN vertex_ids :
          BatchLen(b1) - BatchLen(b2) >= 2


-----------------------------------------------------------------------------
(* face_neighbourhood *)

\* fn != InvalidFaceID && touched[fn] != touched[f]
UntouchedOrInvalid(fn, tch, f) == fn # InvalidFaceID

Untouched(fn, tch, f) == fn # InvalidFaceID /\ tch[fn] # tch[f]

NbStart ==
    /\ pc = "nb_start"
    /\ touched' = [g \in Faces(mesh) |-> IF g = f0 THEN 1 ELSE -1]
    /\ nbrs' = Append(nbrs, f0)
    /\ wf' = walker_f(mesh, f0)
    /\ pc' = "nb_outer"
    /\ UNCHANGED <<meshVars, batchVars, lapVars, f0, wv, aniVars, talVars,
                   vi, op, divz, ub>>

NbOuterEnter ==
    /\ pc = "nb_outer" /\ ~full_circle(wf)
    /\ wv' = walker_v(mesh, k_vert(wf.h))
    /\ pc' = "nb_inner"
    /\ UNCHANGED <<meshVars, batchVars, lapVars, f0, nbrs, touched, wf, aniVars,
                   talVars, vi, op, divz, ub>>

NbOuterExit ==
    /\ pc = "nb_outer" /\ full_circle(wf)
    /\ pc' = "nb_done"
    /\ UNCHANGED <<meshVars, batchVars, lapVars, nbVars, aniVars, talVars,
                   vi, op, divz, ub>>

NbInnerStep ==
    /\ pc = "nb_inner" /\ ~full_circle(wv)
    /\ LET fn == k_face(mesh, wv.h)
       IN  IF Untouched(fn, touched, f0)
           THEN /\ nbrs' = Append(nbrs, fn)
                /\ touched' = [touched EXCEPT ![fn] = 1]
           ELSE UNCHANGED <<nbrs, touched>>
    /\ wv' = circulate_vertex_cw(mesh, wv)
    /\ UNCHANGED <<meshVars, batchVars, lapVars, f0, wf, aniVars, talVars,
                   pc, vi, op, divz, ub>>

NbInnerExit ==
    /\ pc = "nb_inner" /\ full_circle(wv)
    /\ wf' = circulate_face_cw(mesh, wf)
    /\ pc' = "nb_outer"
    /\ UNCHANGED <<meshVars, batchVars, lapVars, f0, nbrs, touched, wv, aniVars,
                   talVars, vi, op, divz, ub>>

NbMeshes == {Triangle, Strip, Tetra, Fan, Disk2, Band, Octa, LQuads}

InitNb ==
    /\ op = "face_neighbourhood"
    /\ pc = "nb_start"
    /\ mesh \in NbMeshes
    /\ pos = BasePos(mesh) /\ pos0 = pos
    /\ f0 \in Faces(mesh)
    /\ nbrs = <<>> /\ touched = <<>> /\ wf = 0 /\ wv = 0
    /\ max_iter = 0 /\ vi = 1
    /\ IdleBatch /\ IdleLap /\ IdleAni /\ IdleTal

NextNb == NbStart \/ NbOuterEnter \/ NbOuterExit \/ NbInnerStep \/ NbInnerExit

SpecNb == InitNb /\ [][NextNb]_vars

AllSharingVertex(m, f) ==
    { g \in Faces(m) :
        \E i \in 1..Len(m.faces[g]) : \E j \in 1..Len(m.faces[f]) :
            m.faces[g][i] = m.faces[f][j] }

(* C9: when face_neighbourhood returns, the appended sequence starts with
   f, holds no invalid face and no face twice, and its elements are exactly
   the faces that share at least one vertex with f. *)
C9_FaceNeighbourhood ==
    op = "face_neighbourhood" /\ pc = "nb_done" =>
        /\ nbrs # <<>> /\ nbrs[1] = f0
        /\ \A i \in 1..Len(nbrs) : nbrs[i] # InvalidFaceID
        /\ \A i \in 1..Len(nbrs) : \A j \in 1..Len(nbrs) :
              nbrs[i] = nbrs[j] => i = j
        /\ { nbrs[i] : i \in 1..Len(nbrs) } = AllSharingVertex(mesh, f0)

C9_Witness ==
    /\ op = "face_neighbourhood" /\ pc = "nb_done"
    /\ \E v \in Vertices(mesh) : boundary(mesh, v)
    /\ Len(nbrs) >= 3
    /\ \E g \in Faces(mesh) : g \notin { nbrs[i] : i \in 1..Len(nbrs) }


-----------------------------------------------------------------------------
(* Geometric primitives of the mesh collaborator used by anisotropic_smooth
   and TAL_smoothing.  They are exact on the embeddings the model uses: edge
   lengths that are rational, and faces whose normal is parallel to an axis. *)

\* the exact square root of a rational that is a square
ISqrt(n) == CHOOSE r \in 0..n : r * r = n

IsSquare(n) == \E r \in 0..n : r * r = n

RSqrt(a) == <<ISqrt(a[1]), ISqrt(a[2])>>

HasRationalRoot(a) == IsFinite(a) /\ a[1] >= 0 /\ IsSquare(a[1]) /\ IsSquare(a[2])

\* length(m, h)
length(p, h) == RSqrt(SqrLength(VSub(p[h[2]], p[h[1]])))

RationalLengths(m, p) ==
    \A h \in HalfEdges(m) : HasRationalRoot(SqrLength(VSub(p[h[2]], p[h[1]])))

RECURSIVE AreaVectorFrom(_, _, _)
AreaVectorFrom(p, fc, i) ==
    IF i > Len(fc) THEN Zero3
    ELSE VAdd(Cross(p[fc[i]], p[fc[(i % Len(fc)) + 1]]), AreaVectorFrom(p, fc, i + 1))

\* twice the area of f times its unit normal
AreaVector(m, p, f) == AreaVectorFrom(p, m.faces[f], 1)

AxisParallel(a) == VFinite(a) /\ Cardinality({ i \in 1..3 : a[i][1] # 0 }) = 1

\* normal(m, f) for a face whose normal is parallel to an axis
normal(m, p, f) == [i \in 1..3 |-> R(Sign(AreaVector(m, p, f)[i][1]))]

AxisParallelFaces(m, p) == \A f \in Faces(m) : AxisParallel(AreaVector(m, p, f))

\* area(m, f) for a face whose normal is parallel to an axis, and for a
\* face without area
area(m, p, f) ==
    LET a == AreaVector(m, p, f)
    IN  RMul(<<1, 2>>, RAdd(RAdd(RAbs(a[1]), RAbs(a[2])), RAbs(a[3])))

HasArea(m, p, f) ==
    AxisParallel(AreaVector(m, p, f)) \/ AreaVector(m, p, f) = Zero3

\* the sum of the values of f over S
RECURSIVE RSum(_, _)
RSum(f, S) ==
    IF S = {} THEN R(0)
    ELSE LET x == CHOOSE y \in S : TRUE
         IN  RAdd(f[x], RSum(f, S \ {x}))

FaceVertices(m, f) == { m.faces[f][i] : i \in 1..Len(m.faces[f]) }

SharingVertex(m, f) ==
    { g \in Faces(m) : FaceVertices(m, g) \cap FaceVertices(m, f) # {} }

\* fvm_filtered_normal(m, f) when every face normal is parallel to an axis:
\* the median is a face of least summed distance 1 - dot(n_i, n_j); a normal
\* equal to the median's has weight exp(0) = 1, every other one has weight
\* exp(-10) or exp(-20), which is below the cut-off 1e-2, so the normalized
\* average is the median's normal.  The faces of least distance must agree
\* on their normal.
fvm_filtered_normal(m, p, f) ==
    LET nb == SharingVertex(m, f)
        dist(i) == RSum([j \in nb |-> RSub(R(1), Dot(normal(m, p, i), normal(m, p, j)))],
                        nb)
        best == { i \in nb : \A j \in nb : ~RLess(dist(j), dist(i)) }
    IN  CHOOSE n \in { normal(m, p, i) : i \in best } :
            \A i \in best : normal(m, p, i) = n

-----------------------------------------------------------------------------
(* anisotropic_smooth with nsm = FVM_NORMAL_SMOOTH *)

\* for(int sub_iter=0;sub_iter<100;++sub_iter)
SubIterations == 100

RECURSIVE SortHalfEdges(_)
SortHalfEdges(S) ==
    IF S = {} THEN <<>>
    ELSE LET h == CHOOSE x \in S : \A y \in S :
                      x[1] < y[1] \/ (x[1] = y[1] /\ x[2] <= y[2])
         IN  <<h>> \o SortHalfEdges(S \ {h})

\* m.halfedges() in enumeration order
HalfEdgeSeq(m) == SortHalfEdges(HalfEdges(m))

\* avg_len: the sum of the half-edge lengths, halved
AverageLength(m, p) ==
    RDiv(RSum([h \in HalfEdges(m) |-> length(p, h)], HalfEdges(m)), R(2))

\* m.pos(v) + 0.5 * n * dot(n, dir) for the half-edge h
FitTerm(p, n, h) ==
    LET v   == h[2]
        dir == VSub(p[h[1]], p[v])
    IN  VAdd(p[v], VScale(RMul(<<1, 2>>, Dot(n, dir)), n))

\* p * 10^k < q for naturals p, q
RECURSIVE ScaledLess(_, _, _)
ScaledLess(p, q, k) ==
    IF k = 0 THEN p < q ELSE ScaledLess(p, (q + 9) \div 10, k - 1)

\* max_move < sqr(1e-8*avg_len)
Converged(mm, al) ==
    IF ~IsFinite(mm) \/ ~IsFinite(al) \/ al[1] = 0 THEN FALSE
    ELSE LET x == RDiv(mm, RMul(al, al))
         IN  ScaledLess(x[1], x[2], 16)

AniStart ==
    /\ pc = "ani_start"
    /\ avg_len' = AverageLength(mesh, pos)
    /\ iter' = 0
    /\ pc' = "ani_outer"
    /\ UNCHANGED <<meshVars, batchVars, new_pos, weight, max_iter, t, wpc, widx,
                   nbVars, filtered_norms, vertex_positions, count, sub_iter,
                   max_move, talVars, vi, op, divz, ub>>

AniOuterEnter ==
    /\ pc = "ani_outer" /\ iter < max_iter
    /\ filtered_norms' = [f \in Faces(mesh) |-> fvm_filtered_normal(mesh, pos, f)]
    /\ vertex_positions' = [v \in Vertices(mesh) |-> Zero3]
    /\ count' = [v \in Vertices(mesh) |-> 0]
    /\ sub_iter' = 0
    /\ vi' = 1
    /\ pc' = "ani_edges"
    /\ UNCHANGED <<meshVars, batchVars, lapVars, nbVars, avg_len, max_move,
                   talVars, op, divz, ub>>

AniOuterExit ==
    /\ pc = "ani_outer" /\ iter >= max_iter
    /\ pc' = "done"
    /\ UNCHANGED <<meshVars, batchVars, lapVars, nbVars, aniVars, talVars,
                   vi, op, divz, ub>>

AniHalfEdge ==
    /\ pc = "ani_edges" /\ vi <= Len(HalfEdgeSeq(mesh))
    /\ LET h == HalfEdgeSeq(mesh)[vi]
           f == k_face(mesh, h)
           v == k_vert(h)
       IN  IF f # InvalidFaceID
           THEN /\ vertex_positions' =
                      [vertex_positions EXCEPT
                          ![v] = VAdd(@, FitTerm(pos, filtered_norms[f], h))]
                /\ count' = [count EXCEPT ![v] = @ + 1]
           ELSE UNCHANGED <<vertex_positions, count>>
    /\ vi' = vi + 1
    /\ UNCHANGED <<meshVars, batchVars, lapVars, nbVars, filtered_norms, sub_iter,
                   avg_len, max_move, talVars, pc, op, divz, ub>>

AniEdgesDone ==
    /\ pc = "ani_edges" /\ vi > Len(HalfEdgeSeq(mesh))
    /\ max_move' = R(0)
    /\ vi' = 1
    /\ pc' = "ani_divide"
    /\ UNCHANGED <<meshVars, batchVars, lapVars, nbVars, filtered_norms,
                   vertex_positions, count, sub_iter, avg_len, talVars,
                   op, divz, ub>>

AniVertex ==
    /\ pc = "ani_divide" /\ vi <= mesh.nv
    /\ LET npos == VDiv(vertex_positions[vi], R(count[vi]))
           move == SqrLength(VSub(npos, pos[vi]))
       IN  /\ max_move' = IF RLess(max_move, move) THEN move ELSE max_move
           /\ pos' = [pos EXCEPT ![vi] = npos]
    /\ vi' = vi + 1
    /\ UNCHANGED <<mesh, pos0, batchVars, lapVars, nbVars, filtered_norms,
                   vertex_positions, count, sub_iter, avg_len, talVars,
                   pc, op, divz, ub>>

AniNextSubIter ==
    /\ pc = "ani_divide" /\ vi > mesh.nv
    /\ ~Converged(max_move, avg_len)
    /\ sub_iter + 1 < SubIterations
    /\ sub_iter' = sub_iter + 1
    /\ vi' = 1
    /\ pc' = "ani_edges"
    /\ UNCHANGED <<meshVars, batchVars, lapVars, nbVars, filtered_norms,
                   vertex_positions, count, avg_len, max_move, talVars,
                   op, divz, ub>>

AniBreak ==
    /\ pc = "ani_divide" /\ vi > mesh.nv
    /\ Converged(max_move, avg_len) \/ sub_iter + 1 >= SubIterations
    /\ iter' = iter + 1
    /\ pc' = "ani_outer"
    /\ UNCHANGED <<meshVars, batchVars, new_pos, weight, max_iter, t, wpc, widx,
                   nbVars, aniVars, talVars, vi, op, divz, ub>>

\* the L of three quads in the plane z = 0, with squares of side 3
FlatL ==
    << Vec(0, 0, 0), Vec(3, 0, 0), Vec(3, 3, 0), Vec(0, 3, 0),
       Vec(3, 6, 0), Vec(0, 6, 0), Vec(6, 0, 0), Vec(6, 3, 0) >>

\* the same L with every second vertex raised by 4: every edge has length 5
\* and every quad is a saddle whose normal is (0, 0, 1)
CheckerL ==
    [v \in 1..8 |-> <<FlatL[v][1], FlatL[v][2],
                      IF v \in {2, 4, 5, 8} THEN R(4) ELSE R(0)>>]

\* the embeddings of the relaxation: half-edges of rational length, face
\* normals parallel to an axis
AniPos(m) ==
    CASE m = Triangle -> { << Vec(0, 0, 0), Vec(3, 0, 0), Vec(0, 4, 0) >> }
      [] m = Strip    -> { << Vec(0, 0, 0), Vec(3, 0, 0), Vec(3, 4, 0), Vec(0, 4, 0) >> }
      [] m = Band     -> { << Vec(0, 0, 0), Vec(3, 0, 0), Vec(0, 4, 0), Vec(3, 4, 0),
                              Vec(0, 8, 0), Vec(3, 8, 0) >> }
      [] m = LQuads   -> { FlatL, CheckerL }

AniMeshes == {Triangle, Strip, Band, LQuads}

Scalings == {1, 2}

InitAni ==
    /\ op = "anisotropic_smooth"
    /\ pc = "ani_start"
    /\ mesh \in AniMeshes
    /\ \E k \in Scalings : \E p \in AniPos(mesh) :
          pos = [v \in Vertices(mesh) |-> VScale(R(k), p[v])]
    /\ RationalLengths(mesh, pos)
    /\ AxisParallelFaces(mesh, pos)
    /\ pos0 = pos
    /\ max_iter \in 0..MaxAniIter
    /\ vi = 1
    /\ IdleBatch /\ IdleLap /\ IdleNb /\ IdleAni /\ IdleTal

NextAni ==
    \/ AniStart \/ AniOuterEnter \/ AniOuterExit \/ AniHalfEdge \/ AniEdgesDone
    \/ AniVertex \/ AniNextSubIter \/ AniBreak

SpecAni == InitAni /\ [][NextAni]_vars

\* the half-edges with a valid incident face whose destination vertex is v
Incoming(m, v) ==
    { h \in HalfEdges(m) : k_vert(h) = v /\ k_face(m, h) # InvalidFaceID }

RECURSIVE FitSum(_, _, _, _)
FitSum(m, p, norms, S) ==
    IF S = {} THEN Zero3
    ELSE LET h == CHOOSE x \in S : TRUE
         IN  VAdd(FitTerm(p, norms[k_face(m, h)], h), FitSum(m, p, norms, S \ {h}))

\* the filter is evaluated only on faces whose normal is parallel to an axis
FilterExact ==
    op = "anisotropic_smooth" /\ pc = "ani_outer" /\ iter < max_iter =>
        AxisParallelFaces(mesh, pos)

(* C8: in every sub-iteration of the relaxation, when the divisions start
   (the half-edges are processed and no position is written yet), count[v]
   is the number of half-edges with a valid face that point to v and
   vertex_positions[v] is the sum of exactly their terms on the current
   positions. *)
C8_FreshAccumulators ==
    op = "anisotropic_smooth" /\ pc = "ani_divide" /\ vi = 1 =>
        \A v \in Vertices(mesh) :
            /\ count[v] = Cardinality(Incoming(mesh, v))
            /\ vertex_positions[v] = FitSum(mesh, pos, filtered_norms, Incoming(mesh, v))


-----------------------------------------------------------------------------
(* TAL_smoothing *)

RECURSIVE RingAreas(_, _, _)
RingAreas(m, p, ws) ==
    IF ws = <<>> THEN R(0)
    ELSE LET f == k_face(m, Head(ws).h)
         IN  RAdd(IF f # InvalidFaceID THEN area(m, p, f) ELSE R(0),
                  RingAreas(m, p, Tail(ws)))

\* the sum of the areas of the faces around v
VertexArea(m, p, v) == RingAreas(m, p, Ring(m, v))

\* the boundary branch before the division: the offsets to the boundary
\* neighbours and their number
RECURSIVE BoundarySum(_, _, _, _)
BoundarySum(m, p, v, ws) ==
    IF ws = <<>> THEN [l |-> Zero3, weight_sum |-> R(0)]
    ELSE LET u    == k_vert(Head(ws).h)
             rest == BoundarySum(m, p, v, Tail(ws))
         IN  IF boundary(m, u)
             THEN [l |-> VAdd(VSub(p[u], p[v]), rest.l),
                   weight_sum |-> RAdd(R(1), rest.weight_sum)]
             ELSE rest

\* the interior branch before the division: the offsets to the neighbours
\* weighted by the neighbours' areas, and the sum of the weights
RECURSIVE AreaWeightedSum(_, _, _, _)
AreaWeightedSum(areas, p, v, ws) ==
    IF ws = <<>> THEN [l |-> Zero3, weight_sum |-> R(0)]
    ELSE LET u    == k_vert(Head(ws).h)
             rest == AreaWeightedSum(areas, p, v, Tail(ws))
         IN  [l |-> VAdd(VScale(areas[u], VSub(p[u], p[v])), rest.l),
              weight_sum |-> RAdd(areas[u], rest.weight_sum)]

\* laplacians[*vid] /= weight_sum
DivideByWeightSum(acc) == VDiv(acc.l, acc.weight_sum)

\* acos(max(-1.0,min(1.0,dot(vec_a,vec_b)))) in right angles, for directions
\* that are perpendicular or parallel
RightAngles(a, b) ==
    IF Dot(a, b) = R(0) THEN 1
    ELSE IF RLess(R(0), Dot(a, b)) THEN 0 ELSE 2

Wedge(m, p, v, w) ==
    [vec_a |-> VSub(p[k_vert(w.h)], p[v]),
     vec_b |-> VSub(p[k_vert(circulate_vertex_ccw(m, w).h)], p[v])]

\* angle_sum in right angles: the angles at v of the faces around v
RECURSIVE AngleSum(_, _, _, _)
AngleSum(m, p, v, ws) ==
    IF ws = <<>> THEN 0
    ELSE LET w == Head(ws)
             g == Wedge(m, p, v, w)
         IN  (IF k_face(m, w.h) # InvalidFaceID
              THEN RightAngles(g.vec_a, g.vec_b) ELSE 0)
             + AngleSum(m, p, v, Tail(ws))

\* below a straight angle the factor is irrational and has no value here
Irrational == CHOOSE x \in {} : TRUE

\* exp(-3.0*sqr(max(0.0, M_PI-angle_sum))): from a straight angle on,
\* max(0.0, M_PI-angle_sum) is 0 and the factor is exp(0) = 1
Attenuation(m, p, v) ==
    IF AngleSum(m, p, v, Ring(m, v)) >= 2 THEN R(1) ELSE Irrational

TalEnter ==
    /\ pc = "tal_outer" /\ iter < max_iter
    /\ vertex_areas' = [v \in Vertices(mesh) |-> R(0)]
    /\ laplacians' = [v \in Vertices(mesh) |-> Zero3]
    /\ vi' = 1
    /\ pc' = "tal_areas"
    /\ UNCHANGED <<meshVars, batchVars, lapVars, nbVars, aniVars, op, divz, ub>>

TalExit ==
    /\ pc = "tal_outer" /\ iter >= max_iter
    /\ pc' = "done"
    /\ UNCHANGED <<meshVars, batchVars, lapVars, nbVars, aniVars, talVars,
                   vi, op, divz, ub>>

TalArea ==
    /\ pc = "tal_areas" /\ vi <= mesh.nv
    /\ vertex_areas' = [vertex_areas EXCEPT ![vi] = VertexArea(mesh, pos, vi)]
    /\ vi' = vi + 1
    /\ UNCHANGED <<meshVars, batchVars, lapVars, nbVars, aniVars, laplacians,
                   pc, op, divz, ub>>

TalAreasDone ==
    /\ pc = "tal_areas" /\ vi > mesh.nv
    /\ vi' = 1
    /\ pc' = "tal_laplacians"
    /\ UNCHANGED <<meshVars, batchVars, lapVars, nbVars, aniVars, talVars,
                   op, divz, ub>>

TalBoundaryVertex ==
    /\ pc = "tal_laplacians" /\ vi <= mesh.nv
    /\ boundary(mesh, vi)
    /\ laplacians' =
           [laplacians EXCEPT
               ![vi] = VScale(Attenuation(mesh, pos, vi),
                              DivideByWeightSum(
                                  BoundarySum(mesh, pos, vi, Ring(mesh, vi))))]
    /\ vi' = vi + 1
    /\ UNCHANGED <<meshVars, batchVars, lapVars, nbVars, aniVars, vertex_areas,
                   pc, op, divz, ub>>

TalInteriorVertex ==
    /\ pc = "tal_laplacians" /\ vi <= mesh.nv
    /\ ~boundary(mesh, vi)
    /\ laplacians' =
           [laplacians EXCEPT
               ![vi] = DivideByWeightSum(
                           AreaWeightedSum(vertex_areas, pos, vi, Ring(mesh, vi)))]
    /\ vi' = vi + 1
    /\ UNCHANGED <<meshVars, batchVars, lapVars, nbVars, aniVars, vertex_areas,
                   pc, op, divz, ub>>

TalLaplaciansDone ==
    /\ pc = "tal_laplacians" /\ vi > mesh.nv
    /\ vi' = 1
    /\ pc' = "tal_move"
    /\ UNCHANGED <<meshVars, batchVars, lapVars, nbVars, aniVars, talVars,
                   op, divz, ub>>

TalMove ==
    /\ pc = "tal_move" /\ vi <= mesh.nv
    /\ pos' = [pos EXCEPT ![vi] = VAdd(@, VScale(weight, laplacians[vi]))]
    /\ vi' = vi + 1
    /\ UNCHANGED <<mesh, pos0, batchVars, lapVars, nbVars, aniVars, talVars,
                   pc, op, divz, ub>>

TalMoveDone ==
    /\ pc = "tal_move" /\ vi > mesh.nv
    /\ iter' = iter + 1
    /\ pc' = "tal_outer"
    /\ UNCHANGED <<meshVars, batchVars, new_pos, weight, max_iter, t, wpc, widx,
                   nbVars, aniVars, talVars, vi, op, divz, ub>>

\* the projection of an embedding onto the plane z = 0
Flatten(p) == [v \in DOMAIN p |-> <<p[v][1], p[v][2], R(0)>>]

\* the vertices on a line
Collinear(m) == [v \in Vertices(m) |-> Vec(v, 0, 0)]

\* the box of width a and height h
BoxPos(a, h) ==
    << Vec(0, 0, 0), Vec(a, 0, 0), Vec(a, a, 0), Vec(0, a, 0),
       Vec(0, 0, h), Vec(a, 0, h), Vec(a, a, h), Vec(0, a, h) >>

BoxSizes == {2, 4}

TalEmbeddings(m) ==
    IF m = Box THEN { BoxPos(a, h) : a \in BoxSizes, h \in BoxSizes }
    ELSE { Flatten(p) : p \in Embeddings(m) } \cup { Collinear(m) }

TalMeshes == {Tetra, Octa, Box}

\* the directions of every angle at a boundary vertex are perpendicular or
\* parallel, and the angles of a boundary vertex sum to a straight angle or more
StraightBoundary(m, p) ==
    \A v \in Vertices(m) : boundary(m, v) =>
        /\ \A i \in 1..Len(Ring(m, v)) :
              LET w == Ring(m, v)[i]
                  g == Wedge(m, p, v, w)
              IN  k_face(m, w.h) # InvalidFaceID =>
                      /\ g.vec_a # Zero3 /\ g.vec_b # Zero3
                      /\ Dot(g.vec_a, g.vec_b) = R(0) \/ Cross(g.vec_a, g.vec_b) = Zero3
        /\ AngleSum(m, p, v, Ring(m, v)) >= 2

\* the inputs on which areas and attenuation are exact in every iteration:
\* a mesh in the plane z = 0 without boundary stays one; a mesh with right
\* angles and faces parallel to the axes is one in its first iteration
InitTal ==
    /\ op = "TAL_smoothing"
    /\ pc = "tal_outer"
    /\ mesh \in TalMeshes
    /\ pos \in TalEmbeddings(mesh)
    /\ \A f \in Faces(mesh) : HasArea(mesh, pos, f)
    /\ StraightBoundary(mesh, pos)
    /\ pos0 = pos
    /\ max_iter \in 0..MaxTalIter
    /\ (\E v \in Vertices(mesh) : boundary(mesh, v)) => max_iter <= 1
    /\ vi = 1
    /\ IdleBatch
    /\ new_pos = <<>> /\ weight \in Weights /\ iter = 0 /\ t = 0
    /\ wpc = <<>> /\ widx = <<>>
    /\ IdleNb /\ IdleAni /\ IdleTal

NextTal ==
    \/ TalEnter \/ TalExit \/ TalArea \/ TalAreasDone \/ TalBoundaryVertex
    \/ TalInteriorVertex \/ TalLaplaciansDone \/ TalMove \/ TalMoveDone

SpecTal == InitTal /\ [][NextTal]_vars

(* C5: a division by an accumulated weight sum is performed only when the
   sum is non-zero, and a vertex whose sum is zero receives zero
   displacement: in TAL_smoothing every computed laplacian and every
   position is finite, and a vertex whose neighbours carry no area has
   the zero laplacian. *)
C5_GuardedDivision ==
    op = "TAL_smoothing" =>
        /\ \A v \in Vertices(mesh) : VFinite(pos[v])
        /\ pc \in {"tal_laplacians", "tal_move"} =>
               \A v \in Vertices(mesh) :
                   /\ VFinite(laplacians[v])
                   /\ (v < vi \/ pc = "tal_move") /\ ~boundary(mesh, v)
                      /\ AreaWeightedSum(vertex_areas, pos, v, Ring(mesh, v)).weight_sum[1] = 0
                      => laplacians[v] = Zero3


=============================================================================
